---------------------------- MODULE Spec2Model ----------------------------
(***************************************************************************)
(* A model of two cores of the linfa fragment:                             *)
(*   - the SMO dual solver of linfa-svm (solver_smo.rs): SolverState::new, *)
(*     swap, reconstruct_gradient, update, max_violating_pair,             *)
(*     select_working_set, should_shrunk, do_shrinking, calculate_rho and  *)
(*     solve;                                                              *)
(*   - the Gaussian naive Bayes fit of linfa-bayes (gaussian_nb.rs):       *)
(*     fit, fit_with, update_mean_variance and filter.                     *)
(* The code is generic over a Float; the model computes in exact rational  *)
(* arithmetic (a pair <<numerator, denominator>> in lowest terms), with    *)
(* the two infinities the solver uses as sentinels.  Positions are 1-based *)
(* here (position k of the model is index k-1 of the code) and the index   *)
(* sentinel -1 of the code is 0 here.                                      *)
(***************************************************************************)
EXTENDS Integers, Sequences, FiniteSets, TLC

(***************************************************************************)
(* Exact rational arithmetic.                                              *)
(***************************************************************************)
Abs(a) == IF a < 0 THEN -a ELSE a

RECURSIVE Gcd(_, _)
Gcd(a, b) == IF b = 0 THEN a ELSE Gcd(b, a % b)

\* the rational n/d in lowest terms with a positive denominator
Rat(n, d) ==
    LET g == Gcd(Abs(n), Abs(d))
        s == IF d < 0 THEN -1 ELSE 1
    IN  <<(s * n) \div g, (s * d) \div g>>

RInt(k) == <<k, 1>>
RZero == <<0, 1>>
ROne == <<1, 1>>
RTwo == <<2, 1>>
\* over the least common denominator, to keep the integers small
RAdd(a, b) == IF a[2] = b[2] THEN Rat(a[1] + b[1], a[2])
              ELSE Rat(a[1] * (b[2] \div Gcd(a[2], b[2])) + b[1] * (a[2] \div Gcd(a[2], b[2])),
                       a[2] * (b[2] \div Gcd(a[2], b[2])))
RNeg(a) == <<-a[1], a[2]>>
RSub(a, b) == RAdd(a, RNeg(b))
RMul(a, b) == IF a[1] = 0 \/ b[1] = 0 THEN RZero
              ELSE Rat(a[1] * b[1], a[2] * b[2])
RDiv(a, b) == IF a[1] = 0 THEN RZero ELSE Rat(a[1] * b[2], a[2] * b[1])
RLt(a, b) == a[1] * b[2] < b[1] * a[2]
RLe(a, b) == a[1] * b[2] <= b[1] * a[2]
RGt(a, b) == RLt(b, a)
RGe(a, b) == RLe(b, a)
RAbs(a) == <<Abs(a[1]), a[2]>>

\* the sum of f[k] over k in lo..hi
RECURSIVE RSum(_, _, _)
RSum(f, lo, hi) == IF lo > hi THEN RZero ELSE RAdd(f[lo], RSum(f, lo + 1, hi))

(***************************************************************************)
(* Floats with the infinities: <<-1, _>> is -infinity, <<1, _>> is         *)
(* +infinity, <<0, r>> is the finite value r and <<2, _>> is NaN (the sum  *)
(* of opposite infinities).                                                *)
(***************************************************************************)
NegInf == <<-1, RZero>>
PosInf == <<1, RZero>>
NaN == <<2, RZero>>
Fin(r) == <<0, r>>
IsFin(x) == x[1] = 0

EAdd(x, y) ==
    IF x[1] = 2 \/ y[1] = 2 THEN NaN
    ELSE IF x[1] = 0 /\ y[1] = 0 THEN Fin(RAdd(x[2], y[2]))
    ELSE IF x[1] = 0 THEN y
    ELSE IF y[1] = 0 THEN x
    ELSE IF x[1] = y[1] THEN x
    ELSE NaN

\* x < y and x <= y on floats; every comparison with NaN is false
ELt(x, y) ==
    IF x[1] = 2 \/ y[1] = 2 THEN FALSE
    ELSE IF x[1] = 0 /\ y[1] = 0 THEN RLt(x[2], y[2])
    ELSE x[1] < y[1]
ELe(x, y) ==
    IF x[1] = 2 \/ y[1] = 2 THEN FALSE
    ELSE IF x[1] = 0 /\ y[1] = 0 THEN RLe(x[2], y[2])
    ELSE x[1] <= y[1]
EMax(x, y) == IF ELt(x, y) THEN y ELSE x
EMin(x, y) == IF ELt(y, x) THEN y ELSE x
EHalf(x) == IF IsFin(x) THEN Fin(RDiv(x[2], RTwo)) ELSE x
ENeg(x) == IF IsFin(x) THEN Fin(RNeg(x[2])) ELSE IF x[1] = 2 THEN NaN ELSE <<-x[1], RZero>>


(***************************************************************************)
(* The SMO solver (linfa-svm/src/solver_smo.rs).                           *)
(***************************************************************************)

\* the cap on update steps: the code's max(10_000_000, 100 * n)
MaxIter == 11
\* the same cap for a run with the nu constraint
MaxIterNu == 6
\* the denominator of the floor a non-positive quad_coef is replaced by: the
\* code's 1e-10, as far as the model's integers allow
TinyDen == 1000000
\* the larger of the two upper bounds C a caller gives a coordinate
MaxC == 2
\* the calls of fit and fit_with in one run
MaxCalls == 3
\* var_smoothing is 0 or 1/SmoothingDen
SmoothingDen == 10
\* the period of the shrinking counter
ShrinkPeriod == 1000
\* the inverse of the relative tolerance 1e-6
RelTolInv == 1000000

Tiny == Rat(1, TinyDen)
Min(a, b) == IF a < b THEN a ELSE b

\* Alpha: a value with its upper bound
AlphaFrom(value, upper_bound) == [value |-> value, upper_bound |-> upper_bound]
reached_upper(a) == RGe(a.value, a.upper_bound)
free_floating(a) == RLt(a.value, a.upper_bound) /\ RGt(a.value, RZero)
reached_lower(a) == a.value = RZero

(***************************************************************************)
(* The permutable kernel the solver is given.  It keeps the sample matrix  *)
(* and the targets in the caller's order and a permutation `indices` of    *)
(* the positions; distances(i, k) is the row of                            *)
(* Q(a, b) = y_a * y_b * K(x_a, x_b) at position i, over the first k       *)
(* positions.                                                              *)
(***************************************************************************)
RECURSIVE Dot(_, _, _)
Dot(u, v, k) == IF k = 0 THEN 0 ELSE u[k] * v[k] + Dot(u, v, k - 1)

KernelFn(kernel, u, v) ==
    IF kernel.linear THEN Dot(u, v, Len(u))
    ELSE (Dot(u, v, Len(u)) + 1) * (Dot(u, v, Len(u)) + 1)

KernelQ(kernel, a, b) ==
    LET k == KernelFn(kernel, kernel.dataset[a], kernel.dataset[b])
    IN  RInt(IF kernel.targets[a] = kernel.targets[b] THEN k ELSE -k)

distances(kernel, i, k) ==
    [j \in 1..k |-> KernelQ(kernel, kernel.indices[i], kernel.indices[j])]

self_distance(kernel, i) ==
    LET a == kernel.indices[i]
    IN  RInt(KernelFn(kernel, kernel.dataset[a], kernel.dataset[a]))

SwapSeq(f, i, j) == [f EXCEPT ![i] = f[j], ![j] = f[i]]

swap_indices(kernel, i, j) ==
    [kernel EXCEPT !.indices = SwapSeq(kernel.indices, i, j)]

PermutableKernel(dataset, targets, linear) ==
    [dataset |-> dataset, targets |-> targets, linear |-> linear,
     indices |-> [k \in 1..Len(dataset) |-> k]]

(***************************************************************************)
(* SolverState                                                             *)
(***************************************************************************)
ntotal(s) == Len(s.alpha)
target(s, idx) == IF s.targets[idx] THEN ROne ELSE RNeg(ROne)
bound(s, idx) == s.bounds[idx]

\* SolverState::new
New(alpha0, p, targets, kernel, bounds, params, nu_constraint) ==
    LET n == Len(alpha0)
        alpha == [i \in 1..n |-> AlphaFrom(alpha0[i], bounds[i])]
        dist == [i \in 1..n |-> distances(kernel, i, n)]
        gradient == [j \in 1..n |->
            RAdd(p[j], RSum([i \in 1..n |->
                IF reached_lower(alpha[i]) THEN RZero
                ELSE RMul(alpha[i].value, dist[i][j])], 1, n))]
        gradient_fixed == [j \in 1..n |->
            RSum([i \in 1..n |->
                IF ~reached_lower(alpha[i]) /\ reached_upper(alpha[i])
                THEN RMul(bounds[i], dist[i][j]) ELSE RZero], 1, n)]
    IN  [gradient |-> gradient,
         gradient_fixed |-> gradient_fixed,
         alpha |-> alpha,
         p |-> p,
         nactive |-> n,
         unshrink |-> FALSE,
         active_set |-> [i \in 1..n |-> i],
         kernel |-> kernel,
         targets |-> targets,
         bounds |-> bounds,
         params |-> params,
         nu_constraint |-> nu_constraint,
         r |-> Fin(RZero)]

\* SolverState::swap
swap(s, i, j) ==
    [s EXCEPT !.gradient = SwapSeq(s.gradient, i, j),
              !.gradient_fixed = SwapSeq(s.gradient_fixed, i, j),
              !.alpha = SwapSeq(s.alpha, i, j),
              !.p = SwapSeq(s.p, i, j),
              !.active_set = SwapSeq(s.active_set, i, j),
              !.kernel = swap_indices(s.kernel, i, j),
              !.targets = SwapSeq(s.targets, i, j)]

\* SolverState::reconstruct_gradient
reconstruct_gradient(s) ==
    LET n == ntotal(s)
        na == s.nactive
        g0 == [j \in 1..n |->
                 IF j > na THEN RAdd(s.gradient_fixed[j], s.p[j]) ELSE s.gradient[j]]
        nfree == Cardinality({x \in 1..na : free_floating(s.alpha[x])})
        byShrunk == [i \in 1..n |->
            IF i > na /\ free_floating(s.alpha[i])
            THEN RAdd(g0[i], RSum([j \in 1..na |->
                     RMul(s.alpha[j].value, distances(s.kernel, i, na)[j])], 1, na))
            ELSE g0[i]]
        byFree == [j \in 1..n |->
            IF j > na
            THEN RAdd(g0[j], RSum([i \in 1..na |->
                     IF free_floating(s.alpha[i])
                     THEN RMul(s.alpha[i].value, distances(s.kernel, i, n)[j])
                     ELSE RZero], 1, na))
            ELSE g0[j]]
    IN  IF na = n THEN s
        ELSE IF nfree * n > 2 * na * (n - na)
             THEN [s EXCEPT !.gradient = byShrunk]
             ELSE [s EXCEPT !.gradient = byFree]


\* SolverState::update, `quad_coef <= 0.0` replaced by the floor
QuadCoef(q) == IF RLe(q, RZero) THEN Tiny ELSE q

\* the outcome of the step on the pair: the values of alpha[i] and alpha[j]
\* after the move along the constraint (mi, mj) and after the clipping to
\* the box (vi, vj)
StepOutcome(moved, clipped) ==
    [vi |-> clipped[1], vj |-> clipped[2], mi |-> moved[1], mj |-> moved[2]]

\* SolverState::update, targets differ: the lower bounds
ClipLowerDiff(diff, moved) ==
    LET lowj == RGt(diff, RZero) /\ RLt(moved[2], RZero)
        lowi == ~RGt(diff, RZero) /\ RLt(moved[1], RZero)
    IN  <<IF lowj THEN diff ELSE IF lowi THEN RZero ELSE moved[1],
          IF lowj THEN RZero ELSE IF lowi THEN RNeg(diff) ELSE moved[2]>>

\* the upper bounds applied to each of the pair on its own, without moving
\* the other one (a clipping that does not keep alpha[i] - alpha[j])
ClipUpperEach(diff, v, bound_i, bound_j) ==
    <<IF RGt(v[1], bound_i) THEN bound_i ELSE v[1],
      IF RGt(v[2], bound_j) THEN bound_j ELSE v[2]>>

\* SolverState::update, targets differ: the upper bounds
ClipUpperDiff(diff, v, bound_i, bound_j) ==
    LET upi == RGt(diff, RSub(bound_i, bound_j)) /\ RGt(v[1], bound_i)
        upj == ~RGt(diff, RSub(bound_i, bound_j)) /\ RGt(v[2], bound_j)
    IN  <<IF upi THEN bound_i ELSE IF upj THEN RAdd(bound_j, diff) ELSE v[1],
          IF upi THEN RSub(bound_i, diff) ELSE IF upj THEN bound_j ELSE v[2]>>

\* SolverState::update, targets differ: alpha[i] += delta, alpha[j] += delta
StepDiff(ai, aj, delta, bound_i, bound_j) ==
    StepOutcome(<<RAdd(ai, delta), RAdd(aj, delta)>>,
                ClipUpperDiff(RSub(ai, aj),
                              ClipLowerDiff(RSub(ai, aj),
                                            <<RAdd(ai, delta), RAdd(aj, delta)>>),
                              bound_i, bound_j))

\* SolverState::update, targets equal: the clipping against bound_i
ClipFirstSame(sum, moved, bound_i) ==
    LET upi == RGt(sum, bound_i) /\ RGt(moved[1], bound_i)
        lowj == ~RGt(sum, bound_i) /\ RLt(moved[2], RZero)
    IN  <<IF upi THEN bound_i ELSE IF lowj THEN sum ELSE moved[1],
          IF upi THEN RSub(sum, bound_i) ELSE IF lowj THEN RZero ELSE moved[2]>>

\* SolverState::update, targets equal: the clipping against bound_j
ClipSecondSame(sum, v, bound_j) ==
    LET upj == RGt(sum, bound_j) /\ RGt(v[2], bound_j)
        lowi == ~RGt(sum, bound_j) /\ RLt(v[1], RZero)
    IN  <<IF upj THEN RSub(sum, bound_j) ELSE IF lowi THEN RZero ELSE v[1],
          IF upj THEN bound_j ELSE IF lowi THEN sum ELSE v[2]>>

\* SolverState::update, targets equal: alpha[i] -= delta, alpha[j] += delta
StepSame(ai, aj, delta, bound_i, bound_j) ==
    StepOutcome(<<RSub(ai, delta), RAdd(aj, delta)>>,
                ClipSecondSame(RAdd(ai, aj),
                               ClipFirstSame(RAdd(ai, aj),
                                             <<RSub(ai, delta), RAdd(aj, delta)>>,
                                             bound_i),
                               bound_j))

\* SolverState::update, the step on the pair (i, j)
PairStep(s, i, j) ==
    IF s.targets[i] # s.targets[j]
    THEN StepDiff(s.alpha[i].value, s.alpha[j].value,
                  RDiv(RNeg(RAdd(s.gradient[i], s.gradient[j])),
                       QuadCoef(RAdd(RAdd(self_distance(s.kernel, i),
                                          self_distance(s.kernel, j)),
                                     RMul(RTwo, distances(s.kernel, i, s.nactive)[j])))),
                  bound(s, i), bound(s, j))
    ELSE StepSame(s.alpha[i].value, s.alpha[j].value,
                  RDiv(RSub(s.gradient[i], s.gradient[j]),
                       QuadCoef(RSub(RAdd(self_distance(s.kernel, i),
                                          self_distance(s.kernel, j)),
                                     RMul(RTwo, distances(s.kernel, i, s.nactive)[j])))),
                  bound(s, i), bound(s, j))

\* SolverState::update, "update gradient": the active part moves with the
\* two changes of alpha
UpdateGradient(s, i, j, delta_alpha_i, delta_alpha_j) ==
    [k \in 1..ntotal(s) |->
        IF k <= s.nactive
        THEN RAdd(s.gradient[k],
                  RAdd(RMul(distances(s.kernel, i, s.nactive)[k], delta_alpha_i),
                       RMul(distances(s.kernel, j, s.nactive)[k], delta_alpha_j)))
        ELSE s.gradient[k]]

\* SolverState::update, "update alpha status and gradient bar" for one of
\* the pair: was and is tell whether it reached its upper bound before and
\* after, last is the end of the range the code walks
UpdateFixed(s, fixed, k, was, is, last) ==
    [t \in 1..ntotal(s) |->
        IF was = is \/ t > last THEN fixed[t]
        ELSE IF was
        THEN RSub(fixed[t], RMul(bound(s, k), distances(s.kernel, k, ntotal(s))[t]))
        ELSE RAdd(fixed[t], RMul(bound(s, k), distances(s.kernel, k, ntotal(s))[t]))]

\* SolverState::update, from the outcome of the step on
ApplyStep(s, i, j, step) ==
    [s EXCEPT
       !.alpha = [s.alpha EXCEPT ![i] = AlphaFrom(step.vi, bound(s, i)),
                                 ![j] = AlphaFrom(step.vj, bound(s, j))],
       !.gradient = UpdateGradient(s, i, j, RSub(step.vi, s.alpha[i].value),
                                   RSub(step.vj, s.alpha[j].value)),
       !.gradient_fixed =
           UpdateFixed(s,
               UpdateFixed(s, s.gradient_fixed, i,
                   reached_upper(AlphaFrom(step.vi, s.alpha[i].upper_bound)),
                   reached_upper(AlphaFrom(step.vi, bound(s, i))), ntotal(s)),
               j,
               reached_upper(AlphaFrom(step.vj, s.alpha[j].upper_bound)),
               reached_upper(AlphaFrom(step.vj, bound(s, j))), s.nactive)]

\* SolverState::update
update(s, i, j) == ApplyStep(s, i, j, PairStep(s, i, j))

\* SolverState::max_violating_pair, over the positions from..nactive with the
\* maxima found so far; a maximum is <<value, position>>, position 0 for none
RECURSIVE MaxViolatingScan(_, _, _, _)
MaxViolatingScan(s, i, gmax1, gmax2) ==
    IF i > s.nactive THEN <<gmax1, gmax2>>
    ELSE LET g == Fin(s.gradient[i])
             ng == Fin(RNeg(s.gradient[i]))
             up == ~reached_upper(s.alpha[i])
             low == ~reached_lower(s.alpha[i])
         IN  IF s.targets[i]
             THEN MaxViolatingScan(s, i + 1,
                    IF up /\ ELe(gmax1[1], ng) THEN <<ng, i>> ELSE gmax1,
                    IF low /\ ELe(gmax2[1], g) THEN <<g, i>> ELSE gmax2)
             ELSE MaxViolatingScan(s, i + 1,
                    IF low /\ ELe(gmax1[1], g) THEN <<g, i>> ELSE gmax1,
                    IF up /\ ELe(gmax2[1], ng) THEN <<ng, i>> ELSE gmax2)

max_violating_pair(s) == MaxViolatingScan(s, 1, <<NegInf, 0>>, <<NegInf, 0>>)

\* SolverState::max_violating_pair_nu, over the positions from i on with the
\* four maxima found so far, in the order the code returns them:
\* <<gmax1, gmax2, gmax3, gmax4>>
RECURSIVE MaxViolatingScanNu(_, _, _)
MaxViolatingScanNu(s, i, gmax) ==
    IF i > s.nactive THEN gmax
    ELSE LET g == Fin(s.gradient[i])
             ng == Fin(RNeg(s.gradient[i]))
             up == ~reached_upper(s.alpha[i])
             low == ~reached_lower(s.alpha[i])
         IN  IF s.targets[i]
             THEN MaxViolatingScanNu(s, i + 1,
                    <<IF up /\ ELt(gmax[1][1], ng) THEN <<ng, i>> ELSE gmax[1],
                      gmax[2],
                      IF low /\ ELt(gmax[3][1], g) THEN <<g, i>> ELSE gmax[3],
                      gmax[4]>>)
             ELSE MaxViolatingScanNu(s, i + 1,
                    <<gmax[1],
                      IF low /\ ELt(gmax[2][1], g) THEN <<g, i>> ELSE gmax[2],
                      gmax[3],
                      IF up /\ ELt(gmax[4][1], ng) THEN <<ng, i>> ELSE gmax[4]>>)

max_violating_pair_nu(s) ==
    MaxViolatingScanNu(s, 1, <<<<NegInf, 0>>, <<NegInf, 0>>, <<NegInf, 0>>, <<NegInf, 0>>>>)

\* select_working_set, the value of obj_diff for a candidate j: grad_diff > 0
\* and quad_coef are those of the candidate
ObjDiffValue(grad_diff, quad_coef) ==
    IF RGt(quad_coef, RZero)
    THEN RDiv(RNeg(RMul(grad_diff, grad_diff)), quad_coef)
    ELSE RDiv(RNeg(RMul(grad_diff, grad_diff)), Tiny)

\* select_working_set, a candidate j that passed its status test:
\* <<TRUE, obj_diff>>, or <<FALSE, _>> when grad_diff is not positive
ObjDiffOf(grad_diff, quad_coef) ==
    IF RGt(grad_diff, RZero) THEN <<TRUE, ObjDiffValue(grad_diff, quad_coef)>>
    ELSE <<FALSE, RZero>>

\* select_working_set, the candidate second index j:  <<TRUE, obj_diff>>, or
\* <<FALSE, _>> for no candidate
ObjDiff(s, i, gmax, dist_ij, j) ==
    IF s.targets[j]
    THEN IF ~reached_lower(s.alpha[j])
         THEN ObjDiffOf(RAdd(gmax, s.gradient[j]),
                        RSub(RAdd(self_distance(s.kernel, i), self_distance(s.kernel, j)),
                             RMul(RMul(RTwo, target(s, i)), dist_ij)))
         ELSE <<FALSE, RZero>>
    ELSE IF ~reached_upper(s.alpha[j])
         THEN ObjDiffOf(RSub(gmax, s.gradient[j]),
                        RAdd(RAdd(self_distance(s.kernel, i), self_distance(s.kernel, j)),
                             RMul(RMul(RTwo, target(s, i)), dist_ij)))
         ELSE <<FALSE, RZero>>

\* select_working_set, the better of the minimum so far and the candidate c
ObjDiffMin(obj_diff_min, c, j) ==
    IF c[1] /\ ELe(Fin(c[2]), obj_diff_min[1]) THEN <<Fin(c[2]), j>>
    ELSE obj_diff_min

RECURSIVE ObjDiffScan(_, _, _, _, _, _)
ObjDiffScan(s, i, gmax, dist_i, j, obj_diff_min) ==
    IF j > s.nactive THEN obj_diff_min
    ELSE ObjDiffScan(s, i, gmax, dist_i, j + 1,
                     ObjDiffMin(obj_diff_min, ObjDiff(s, i, gmax, dist_i[j], j), j))

\* select_working_set, its verdict from the two maxima and the minimum
WorkingSet(s, gmax, gmax2, obj_diff_min) ==
    IF ELt(EAdd(gmax[1], gmax2[1]), Fin(s.params.eps)) \/ obj_diff_min[2] = 0
    THEN <<1, 1, TRUE>>
    ELSE <<gmax[2], obj_diff_min[2], FALSE>>

\* select_working_set, the second index for the maxima of max_violating_pair
SelectSecond(s, gmax, gmax2) ==
    WorkingSet(s, gmax, gmax2,
               IF gmax[2] # 0
               THEN ObjDiffScan(s, gmax[2], gmax[1][2],
                                distances(s.kernel, gmax[2], ntotal(s)), 1,
                                <<PosInf, 0>>)
               ELSE <<PosInf, 0>>)

\* select_working_set_nu, the candidate second index j: its first index is
\* that of gmaxp1 for a positive target and that of gmaxn1 for a negative
\* one; a maximum without position is -infinity and grad_diff not positive
ObjDiffNu(s, gmaxp1, gmaxn1, j) ==
    IF s.targets[j]
    THEN IF ~reached_lower(s.alpha[j]) /\ gmaxp1[2] # 0
         THEN ObjDiffOf(RAdd(gmaxp1[1][2], s.gradient[j]),
                        RSub(RAdd(self_distance(s.kernel, gmaxp1[2]),
                                  self_distance(s.kernel, j)),
                             RMul(RTwo, distances(s.kernel, gmaxp1[2], ntotal(s))[j])))
         ELSE <<FALSE, RZero>>
    ELSE IF ~reached_upper(s.alpha[j]) /\ gmaxn1[2] # 0
         THEN ObjDiffOf(RSub(gmaxn1[1][2], s.gradient[j]),
                        RSub(RAdd(self_distance(s.kernel, gmaxn1[2]),
                                  self_distance(s.kernel, j)),
                             RMul(RTwo, distances(s.kernel, gmaxn1[2], ntotal(s))[j])))
         ELSE <<FALSE, RZero>>

RECURSIVE ObjDiffScanNu(_, _, _, _, _)
ObjDiffScanNu(s, gmaxp1, gmaxn1, j, obj_diff_min) ==
    IF j > s.nactive THEN obj_diff_min
    ELSE ObjDiffScanNu(s, gmaxp1, gmaxn1, j + 1,
                       ObjDiffMin(obj_diff_min, ObjDiffNu(s, gmaxp1, gmaxn1, j), j))

\* select_working_set_nu, its verdict from the four maxima (gmaxp1, gmaxn1,
\* gmaxp2, gmaxn2 in the order of the tuple) and the minimum
WorkingSetNu(s, gmax, obj_diff_min) ==
    IF ELt(EMax(EAdd(gmax[1][1], gmax[3][1]), EAdd(gmax[2][1], gmax[4][1])),
           Fin(s.params.eps))
       \/ obj_diff_min[2] = 0
    THEN <<1, 1, TRUE>>
    ELSE <<IF s.targets[obj_diff_min[2]] THEN gmax[1][2] ELSE gmax[2][2],
           obj_diff_min[2], FALSE>>

\* SolverState::select_working_set_nu: <<i, j, is_optimal>>
select_working_set_nu(s) ==
    WorkingSetNu(s, max_violating_pair_nu(s),
                 ObjDiffScanNu(s, max_violating_pair_nu(s)[1], max_violating_pair_nu(s)[2],
                               1, <<PosInf, 0>>))

\* SolverState::select_working_set: <<i, j, is_optimal>>
select_working_set(s) ==
    IF s.nu_constraint THEN select_working_set_nu(s)
    ELSE SelectSecond(s, max_violating_pair(s)[1], max_violating_pair(s)[2])

\* SolverState::should_shrunk
should_shrunk(s, i, gmax1, gmax2) ==
    LET g == Fin(s.gradient[i])
        ng == Fin(RNeg(s.gradient[i]))
    IN  IF reached_upper(s.alpha[i])
        THEN (IF s.targets[i] THEN ELt(gmax1, ng) ELSE ELt(gmax2, ng))
        ELSE IF reached_lower(s.alpha[i])
        THEN (IF s.targets[i] THEN ELt(gmax2, g) ELSE ELt(gmax1, ng))
        ELSE FALSE


\* SolverState::do_shrinking, the inner loop at position i: drop the tail
\* positions that should be shrunk too, then swap i with the first that
\* should not
RECURSIVE ShrinkTail(_, _, _, _)
ShrinkTail(s, i, gmax1, gmax2) ==
    IF s.nactive >= i
    THEN IF ~should_shrunk(s, s.nactive + 1, gmax1, gmax2)
         THEN swap(s, i, s.nactive + 1)
         ELSE ShrinkTail([s EXCEPT !.nactive = @ - 1], i, gmax1, gmax2)
    ELSE s

\* SolverState::do_shrinking, the loop `for i in 0..self.nactive()`: its range
\* is fixed when the loop starts (positions i..last here).  The decrement of
\* an nactive that is 0 panics (an overflow check, or with wrapping
\* arithmetic the index out of bounds that follows).
RECURSIVE ShrinkScan(_, _, _, _, _)
ShrinkScan(s, i, last, gmax1, gmax2) ==
    IF i > last THEN [state |-> s, panicked |-> FALSE]
    ELSE IF should_shrunk(s, i, gmax1, gmax2)
    THEN IF s.nactive = 0 THEN [state |-> s, panicked |-> TRUE]
         ELSE ShrinkScan(ShrinkTail([s EXCEPT !.nactive = @ - 1], i, gmax1, gmax2),
                         i + 1, last, gmax1, gmax2)
    ELSE ShrinkScan(s, i + 1, last, gmax1, gmax2)

\* SolverState::do_shrinking: gmax1 + gmax2 <= eps * 10
ReachedTenEps(s, pair) ==
    ELe(EAdd(pair[1][1], pair[2][1]), Fin(RMul(s.params.eps, RInt(10))))

\* a restoration that is due whenever 10*eps is reached, whatever unshrink is
RestoreDueUnlatched(s) == ReachedTenEps(s, max_violating_pair(s))

\* SolverState::do_shrinking, "work on all variables when 10*eps is reached":
\* the condition of the restoration
RestoreDue(s) == ~s.unshrink /\ ReachedTenEps(s, max_violating_pair(s))

\* SolverState::do_shrinking, the state its loop starts from: after the
\* restoration when it is due
ShrinkStart(s) ==
    IF RestoreDue(s)
    THEN [reconstruct_gradient([s EXCEPT !.unshrink = TRUE]) EXCEPT !.nactive = ntotal(s)]
    ELSE s

\* SolverState::should_shrunk_nu, gmax the values <<gmax1, gmax2, gmax3, gmax4>>
should_shrunk_nu(s, i, gmax) ==
    IF reached_upper(s.alpha[i])
    THEN (IF s.targets[i] THEN ELt(gmax[1], Fin(RNeg(s.gradient[i])))
          ELSE ELt(gmax[4], Fin(RNeg(s.gradient[i]))))
    ELSE IF reached_lower(s.alpha[i])
    THEN (IF s.targets[i] THEN ELt(gmax[2], Fin(s.gradient[i]))
          ELSE ELt(gmax[3], Fin(s.gradient[i])))
    ELSE FALSE

\* SolverState::do_shrinking_nu, the inner loop at position i
RECURSIVE ShrinkTailNu(_, _, _)
ShrinkTailNu(s, i, gmax) ==
    IF s.nactive >= i
    THEN IF ~should_shrunk_nu(s, s.nactive + 1, gmax)
         THEN swap(s, i, s.nactive + 1)
         ELSE ShrinkTailNu([s EXCEPT !.nactive = @ - 1], i, gmax)
    ELSE s

\* SolverState::do_shrinking_nu, the loop `for i in 0..self.nactive()`, its
\* range fixed when the loop starts
RECURSIVE ShrinkScanNu(_, _, _, _)
ShrinkScanNu(s, i, last, gmax) ==
    IF i > last THEN [state |-> s, panicked |-> FALSE]
    ELSE IF should_shrunk_nu(s, i, gmax)
    THEN IF s.nactive = 0 THEN [state |-> s, panicked |-> TRUE]
         ELSE ShrinkScanNu(ShrinkTailNu([s EXCEPT !.nactive = @ - 1], i, gmax),
                           i + 1, last, gmax)
    ELSE ShrinkScanNu(s, i + 1, last, gmax)

\* SolverState::do_shrinking_nu: max(gmax1 + gmax2, gmax3 + gmax4) <= eps * 10,
\* gmax the values <<gmax1, gmax2, gmax3, gmax4>>
ReachedTenEpsNu(s, gmax) ==
    ELe(EMax(EAdd(gmax[1], gmax[2]), EAdd(gmax[3], gmax[4])),
        Fin(RMul(s.params.eps, RInt(10))))

\* the values of the four maxima of max_violating_pair_nu
MaximaNu(s) == [m \in 1..4 |-> max_violating_pair_nu(s)[m][1]]

\* SolverState::do_shrinking_nu, "work on all variables when 10*eps is
\* reached": the condition of the restoration
RestoreDueNu(s) == ~s.unshrink /\ ReachedTenEpsNu(s, MaximaNu(s))

\* SolverState::do_shrinking_nu, the state its loop starts from
ShrinkStartNu(s) ==
    IF RestoreDueNu(s)
    THEN [reconstruct_gradient([s EXCEPT !.unshrink = TRUE]) EXCEPT !.nactive = ntotal(s)]
    ELSE s

\* SolverState::do_shrinking_nu
do_shrinking_nu(s) ==
    ShrinkScanNu(ShrinkStartNu(s), 1, ShrinkStartNu(s).nactive, MaximaNu(s))

\* SolverState::do_shrinking
do_shrinking(s) ==
    IF s.nu_constraint THEN do_shrinking_nu(s)
    ELSE ShrinkScan(ShrinkStart(s), 1, ShrinkStart(s).nactive,
                    max_violating_pair(s)[1][1], max_violating_pair(s)[2][1])

\* whether a call of do_shrinking on s restores the full active set
Restoring(s) == IF s.nu_constraint THEN RestoreDueNu(s) ELSE RestoreDue(s)

\* SolverState::calculate_rho, the scan: <<nfree, sum_free, ub, lb>>
RECURSIVE RhoScan(_, _, _)
RhoScan(s, i, acc) ==
    IF i > s.nactive THEN acc
    ELSE LET yg == RMul(target(s, i), s.gradient[i])
         IN  RhoScan(s, i + 1,
               IF reached_upper(s.alpha[i])
               THEN (IF s.targets[i]
                     THEN <<acc[1], acc[2], acc[3], EMax(acc[4], Fin(yg))>>
                     ELSE <<acc[1], acc[2], EMin(acc[3], Fin(yg)), acc[4]>>)
               ELSE IF reached_lower(s.alpha[i])
               THEN (IF s.targets[i]
                     THEN <<acc[1], acc[2], EMin(acc[3], Fin(yg)), acc[4]>>
                     ELSE <<acc[1], acc[2], acc[3], EMax(acc[4], Fin(yg))>>)
               ELSE <<acc[1] + 1, RAdd(acc[2], yg), acc[3], acc[4]>>)

\* SolverState::calculate_rho_nu, the scan of the targets that are `positive`:
\* <<nfree, sum_free, ub, lb>>
RECURSIVE RhoScanNu(_, _, _, _)
RhoScanNu(s, positive, i, acc) ==
    IF i > s.nactive THEN acc
    ELSE RhoScanNu(s, positive, i + 1,
           IF s.targets[i] # positive THEN acc
           ELSE IF reached_upper(s.alpha[i])
           THEN <<acc[1], acc[2], acc[3], EMax(acc[4], Fin(s.gradient[i]))>>
           ELSE IF reached_lower(s.alpha[i])
           THEN <<acc[1], acc[2], EMax(acc[3], Fin(s.gradient[i])), acc[4]>>
           ELSE <<acc[1] + 1, RAdd(acc[2], s.gradient[i]), acc[3], acc[4]>>)

\* SolverState::calculate_rho_nu, r1 (positive) or r2
RhoNu(s, positive) ==
    LET acc == RhoScanNu(s, positive, 1, <<0, RZero, PosInf, NegInf>>)
    IN  IF acc[1] > 0 THEN Fin(RDiv(acc[2], RInt(acc[1])))
        ELSE EHalf(EAdd(acc[3], acc[4]))

\* SolverState::calculate_rho_nu, what it returns
calculate_rho_nu(s) == EHalf(EAdd(RhoNu(s, TRUE), ENeg(RhoNu(s, FALSE))))

\* SolverState::calculate_rho_nu, what it leaves in self.r
ResidualNu(s) == EHalf(EAdd(RhoNu(s, TRUE), RhoNu(s, FALSE)))

\* SolverState::calculate_rho
calculate_rho(s) ==
    IF s.nu_constraint THEN calculate_rho_nu(s)
    ELSE LET acc == RhoScan(s, 1, <<0, RZero, PosInf, NegInf>>)
         IN  IF acc[1] > 0 THEN Fin(RDiv(acc[2], RInt(acc[1])))
             ELSE EHalf(EAdd(acc[3], acc[4]))

(***************************************************************************)
(* SolverState::solve, in the steps of its main loop.                      *)
(***************************************************************************)
max_iter(s) == IF s.nu_constraint THEN MaxIterNu ELSE MaxIter

InitialCounter(s) == Min(ntotal(s), ShrinkPeriod) + 1

\* the loop goes on from the outcome of do_shrinking with a fresh counter
AfterShrinking(shrunk, counter) ==
    [state |-> shrunk.state, panicked |-> shrunk.panicked, counter |-> counter,
     called |-> TRUE]

\* the head of the loop body: the shrinking counter and do_shrinking
LoopHead(s, counter) ==
    IF counter - 1 = 0
    THEN IF s.params.shrinking
         THEN AfterShrinking(do_shrinking(s), Min(ntotal(s), ShrinkPeriod))
         ELSE [state |-> s, panicked |-> FALSE,
               counter |-> Min(ntotal(s), ShrinkPeriod), called |-> FALSE]
    ELSE [state |-> s, panicked |-> FALSE, counter |-> counter - 1, called |-> FALSE]

\* the second try of the selection, on the reconstructed gradient s1
LoopReselect(s1, counter, second) ==
    IF second[3]
    THEN [state |-> s1, counter |-> counter, ws |-> <<1, 1>>, break |-> TRUE]
    ELSE [state |-> s1, counter |-> 1, ws |-> <<second[1], second[2]>>,
          break |-> FALSE]

\* the first try of the selection
LoopSelectFirst(s, counter, first) ==
    IF ~first[3]
    THEN [state |-> s, counter |-> counter, ws |-> <<first[1], first[2]>>,
          break |-> FALSE]
    ELSE LoopReselect(reconstruct_gradient(s), counter,
                      select_working_set(reconstruct_gradient(s)))

\* the selection of the working set, with the second try on the
\* reconstructed gradient
LoopSelect(s, counter) == LoopSelectFirst(s, counter, select_working_set(s))

\* the solution put back: alpha in the order of active_set
OutputAlpha(s) == [i \in 1..ntotal(s) |-> s.alpha[s.active_set[i]].value]

\* the linear decision function of a linear kernel
LinearDecision(s, alpha, dataset) ==
    [f \in 1..Len(dataset[1]) |->
        RSum([i \in 1..ntotal(s) |->
                RMul(RMul(target(s, i), alpha[i]), RInt(dataset[i][f]))],
             1, ntotal(s))]

\* the objective value
Objective(s) ==
    RDiv(RSum([i \in 1..ntotal(s) |->
                 RMul(s.alpha[i].value, RAdd(s.gradient[i], s.p[i]))],
              1, ntotal(s)), RTwo)

\* the Svm built from the final state s1
Solution(s1, iter) ==
    [state |-> IF s1.nu_constraint THEN [s1 EXCEPT !.r = ResidualNu(s1)] ELSE s1,
     svm |-> [alpha |-> OutputAlpha(s1),
              rho |-> calculate_rho(s1),
              r |-> IF s1.nu_constraint THEN <<TRUE, ResidualNu(s1)>>
                    ELSE <<FALSE, Fin(RZero)>>,
              exit_reason |-> IF max_iter(s1) = iter THEN "ReachedIterations"
                              ELSE "ReachedThreshold",
              obj |-> Objective(s1),
              iterations |-> iter,
              linear_decision |->
                  IF s1.kernel.linear
                  THEN <<TRUE, LinearDecision(s1, OutputAlpha(s1), s1.kernel.dataset)>>
                  ELSE <<FALSE, <<>>>>]]

\* the code after the loop: the Svm that solve returns
LoopFinish(s, iter) ==
    Solution(IF iter >= max_iter(s) /\ s.nactive < ntotal(s)
             THEN [reconstruct_gradient(s) EXCEPT !.nactive = ntotal(s)]
             ELSE s,
             iter)


(***************************************************************************)
(* Gaussian naive Bayes (gaussian_nb.rs).  A dataset is a record of its    *)
(* records (the rows, each a tuple of integer features), its targets (the  *)
(* label of each row) and its number of columns; a vector over the         *)
(* features is a tuple of rationals.  What fit_with returns or takes as    *)
(* its model_in is NoModel (None), OkModel (Some(Ok(model))) or ErrModel   *)
(* (Some(Err(err))).                                                       *)
(***************************************************************************)
NoModel == [kind |-> "None", class_info |-> <<>>, error |-> ""]

OkModel(class_info) == [kind |-> "Ok", class_info |-> class_info, error |-> ""]

ErrModel(err) == [kind |-> "Err", class_info |-> <<>>, error |-> err]

\* ClassInfo::default
ClassInfoDefault == [class_count |-> 0, prior |-> RZero, theta |-> <<>>, sigma |-> <<>>]

\* the labels of the targets, each once
labels(y) == {y[r] : r \in 1..Len(y)}

\* GaussianNbParams::filter, the rows from r on
RECURSIVE FilterFrom(_, _, _, _)
FilterFrom(x, y, ycondition, r) ==
    IF r > Len(y) THEN <<>>
    ELSE IF ycondition = y[r] THEN <<x[r]>> \o FilterFrom(x, y, ycondition, r + 1)
    ELSE FilterFrom(x, y, ycondition, r + 1)

\* GaussianNbParams::filter
filter(x, y, ycondition) == FilterFrom(x, y, ycondition, 1)

\* mean_axis(Axis(0)), of a matrix with rows
mean_axis(x, ncols) ==
    [f \in 1..ncols |->
        RDiv(RSum([r \in 1..Len(x) |-> RInt(x[r][f])], 1, Len(x)), RInt(Len(x)))]

\* the mean of the squared differences to the mean mu, in column f
MeanSquare(x, f, mu) ==
    RDiv(RSum([r \in 1..Len(x) |->
                 RMul(RSub(RInt(x[r][f]), mu), RSub(RInt(x[r][f]), mu))], 1, Len(x)),
         RInt(Len(x)))

\* var_axis(Axis(0), 0): without rows it is 0/0 in every column
var_axis(x, ncols) ==
    [f \in 1..ncols |->
        IF Len(x) = 0 THEN NaN ELSE Fin(MeanSquare(x, f, mean_axis(x, ncols)[f]))]

\* the greatest of the finite values v[f..]
RECURSIVE MaxFrom(_, _, _)
MaxFrom(v, f, best) ==
    IF f > Len(v) THEN best
    ELSE MaxFrom(v, f + 1, IF RGt(v[f][2], best) THEN v[f][2] ELSE best)

\* QuantileExt::max: an error when there is no value or when one is NaN
max(v) ==
    IF Len(v) = 0 THEN [ok |-> FALSE, value |-> RZero, error |-> "EmptyInput"]
    ELSE IF \E f \in 1..Len(v) : ~IsFin(v[f])
    THEN [ok |-> FALSE, value |-> RZero, error |-> "UndefinedOrder"]
    ELSE [ok |-> TRUE, value |-> MaxFrom(v, 2, v[1][2]), error |-> ""]

\* a merge that adds up the two sums of squared differences and leaves out
\* the term of the distance between the two means
MergeWithoutMeanShift(count_old, mu_old, var_old, count_new, mu_new, var_new) ==
    <<[f \in 1..Len(mu_new) |->
         RDiv(RAdd(RMul(mu_new[f], RInt(count_new)), RMul(mu_old[f], RInt(count_old))),
              RInt(count_old + count_new))],
      [f \in 1..Len(mu_new) |->
         RDiv(RAdd(RMul(var_old[f], RInt(count_old)), RMul(var_new[f], RInt(count_new))),
              RInt(count_old + count_new))]>>

\* update_mean_variance, the merge of an old count > 0 with new rows
MergeMeanVariance(count_old, mu_old, var_old, count_new, mu_new, var_new) ==
    <<[f \in 1..Len(mu_new) |->
         RDiv(RAdd(RMul(mu_new[f], RInt(count_new)), RMul(mu_old[f], RInt(count_old))),
              RInt(count_old + count_new))],
      [f \in 1..Len(mu_new) |->
         RDiv(RAdd(RAdd(RMul(var_old[f], RInt(count_old)),
                        RMul(var_new[f], RInt(count_new))),
                   RMul(RDiv(RInt(count_new * count_old), RInt(count_old + count_new)),
                        RMul(RSub(mu_old[f], mu_new[f]), RSub(mu_old[f], mu_new[f])))),
              RInt(count_old + count_new))]>>

\* GaussianNbParams::update_mean_variance: <<theta, sigma>>
update_mean_variance(count_old, mu_old, var_old, x_new, ncols) ==
    IF Len(x_new) = 0 THEN <<mu_old, var_old>>
    ELSE IF count_old = 0
    THEN <<mean_axis(x_new, ncols), [f \in 1..ncols |-> var_axis(x_new, ncols)[f][2]]>>
    ELSE MergeMeanVariance(count_old, mu_old, var_old, Len(x_new),
                           mean_axis(x_new, ncols),
                           [f \in 1..ncols |-> var_axis(x_new, ncols)[f][2]])

\* fit_with: `x.sigma -= epsilon` and `x.sigma += epsilon` on every class
ShiftSigma(class_info, delta) ==
    [c \in DOMAIN class_info |->
        [class_info[c] EXCEPT
            !.sigma = [f \in 1..Len(class_info[c].sigma) |->
                         RAdd(class_info[c].sigma[f], delta)]]]

\* fit_with: entry(class).or_insert_with(ClassInfo::default)
Entry(class_info, class) ==
    IF class \in DOMAIN class_info THEN class_info[class] ELSE ClassInfoDefault

\* fit_with: the mean, variance and class count of one class updated
UpdatedClass(info, theta_sigma, nclass) ==
    [info EXCEPT !.theta = theta_sigma[1],
                 !.sigma = theta_sigma[2],
                 !.class_count = @ + nclass]

\* fit_with: the loop over the classes of the batch
FitClasses(class_info, dataset) ==
    [c \in DOMAIN class_info \cup labels(dataset.targets) |->
        IF c \in labels(dataset.targets)
        THEN UpdatedClass(Entry(class_info, c),
                 update_mean_variance(Entry(class_info, c).class_count,
                                      Entry(class_info, c).theta,
                                      Entry(class_info, c).sigma,
                                      filter(dataset.records, dataset.targets, c),
                                      dataset.ncols),
                 Len(filter(dataset.records, dataset.targets, c)))
        ELSE class_info[c]]

\* the class counts of the classes in S added up
RECURSIVE CountOver(_, _)
CountOver(class_info, S) ==
    IF S = {} THEN 0
    ELSE class_info[CHOOSE c \in S : TRUE].class_count
         + CountOver(class_info, S \ {CHOOSE c \in S : TRUE})

\* a sum that counts the classes instead of their samples
ClassCountSumOfClasses(class_info) == Cardinality(DOMAIN class_info)

\* fit_with: class_count_sum
ClassCountSum(class_info) == CountOver(class_info, DOMAIN class_info)

\* fit_with: "We update the priors"
UpdatePriors(class_info) ==
    [c \in DOMAIN class_info |->
        [class_info[c] EXCEPT
            !.prior = RDiv(RInt(class_info[c].class_count),
                           RInt(ClassCountSum(class_info)))]]

\* fit_with, once epsilon is known
FitBatch(class_info, dataset, epsilon) ==
    UpdatePriors(ShiftSigma(FitClasses(ShiftSigma(class_info, RNeg(epsilon)), dataset),
                            epsilon))

\* fit_with, after the propagation of errors: variance is the outcome of max
FitFrom(params, class_info, dataset, variance) ==
    IF variance.ok
    THEN OkModel(FitBatch(class_info, dataset,
                          RMul(params.var_smoothing, variance.value)))
    ELSE ErrModel(variance.error)

\* a fit_with that starts afresh from a model_in that is an error
fit_with_afresh(params, model_in, dataset) ==
    FitFrom(params, IF model_in.kind = "Ok" THEN model_in.class_info ELSE <<>>,
            dataset, max(var_axis(dataset.records, dataset.ncols)))

\* GaussianNbParams::fit_with
fit_with(params, model_in, dataset) ==
    IF model_in.kind = "Err" THEN model_in
    ELSE FitFrom(params, IF model_in.kind = "Ok" THEN model_in.class_info ELSE <<>>,
                 dataset, max(var_axis(dataset.records, dataset.ncols)))

\* GaussianNbParams::fit
fit(params, dataset) == fit_with(params, NoModel, dataset)

(***************************************************************************)
(* GaussianNb::predict.  The joint log-likelihood of a class for a row is  *)
(*   ln(prior) - 1/2 * sum_f ln(2 pi sigma_f)                              *)
(*             - 1/2 * sum_f (x_f - theta_f)^2 / sigma_f.                  *)
(* With a sigma_f = 0 the first sum is -infinity and the second +infinity  *)
(* or 0/0, with a sigma_f < 0 the logarithm is undefined: the value is NaN *)
(* in both cases.  Otherwise twice the value is, up to the same constant   *)
(* for every class, ln(lnarg) - quad with                                  *)
(*   lnarg = prior^2 / prod_f sigma_f,  quad = sum_f (x_f - theta_f)^2 /   *)
(* sigma_f, two rationals that the model keeps instead of the logarithm.   *)
(***************************************************************************)
\* the product of sigma[f..]
RECURSIVE SigmaProduct(_, _)
SigmaProduct(sigma, f) ==
    IF f > Len(sigma) THEN ROne ELSE RMul(sigma[f], SigmaProduct(sigma, f + 1))

\* joint_log_likelihood, one class and one row
Jll(info, row) ==
    IF \E f \in 1..Len(info.sigma) : ~RGt(info.sigma[f], RZero)
    THEN [nan |-> TRUE, lnarg |-> ROne, quad |-> RZero]
    ELSE [nan |-> FALSE,
          lnarg |-> RDiv(RMul(info.prior, info.prior), SigmaProduct(info.sigma, 1)),
          quad |-> RSum([f \in 1..Len(info.sigma) |->
                           RDiv(RMul(RSub(RInt(row[f]), info.theta[f]),
                                     RSub(RInt(row[f]), info.theta[f])),
                                info.sigma[f])], 1, Len(info.sigma))]

\* GaussianNb::joint_log_likelihood: for every class, the value of every row
joint_log_likelihood(class_info, x) ==
    [c \in DOMAIN class_info |-> [r \in 1..Len(x) |-> Jll(class_info[c], x[r])]]

\* the order of ln(a/b) and c/e for a/b > 1 and c/e > 0, from
\* ln r < r - 1, ln r > 2 (r - 1) / (r + 1) and e^d > 2^d, e^d > 1 + d + d^2/2;
\* "unknown" where these bounds do not tell
LnOrderAbove(a, b, c, e) ==
    IF c \div e >= (a + b - 1) \div b - 1 THEN "lt"
    ELSE IF c \div e >= 1 /\ 2 ^ Min(c \div e, 30) >= (a + b - 1) \div b THEN "lt"
    ELSE IF c * b >= e * (a - b) THEN "lt"
    ELSE IF c * (a + b) <= 2 * e * (a - b) THEN "gt"
    ELSE IF b * (2 * e * e + 2 * c * e + c * c) >= 2 * a * e * e THEN "lt"
    ELSE "unknown"

\* the order of ln(r) and d for rationals r > 0 and d: "lt", "eq" or "gt",
\* or "unknown"
LnOrder(r, d) ==
    IF r = ROne THEN (IF d[1] > 0 THEN "lt" ELSE IF d[1] = 0 THEN "eq" ELSE "gt")
    ELSE IF RGt(r, ROne)
    THEN (IF d[1] <= 0 THEN "gt" ELSE LnOrderAbove(r[1], r[2], d[1], d[2]))
    ELSE IF d[1] >= 0 THEN "lt"
    ELSE IF LnOrderAbove(r[2], r[1], -d[1], d[2]) = "lt" THEN "gt"
    ELSE IF LnOrderAbove(r[2], r[1], -d[1], d[2]) = "gt" THEN "lt"
    ELSE "unknown"

\* partial_cmp of two joint log-likelihoods: "none" when one is NaN
JllOrder(u, v) ==
    IF u.nan \/ v.nan THEN "none"
    ELSE LnOrder(RDiv(u.lnarg, v.lnarg), RSub(u.quad, v.quad))

\* argmax of the values v in their order, from position i on with the
\* greatest so far at position best: the first of the greatest values, 0 when
\* an order is undefined
RECURSIVE ArgMaxFrom(_, _, _)
ArgMaxFrom(v, i, best) ==
    IF i > Len(v) THEN best
    ELSE IF JllOrder(v[i], v[best]) = "none" THEN 0
    ELSE IF JllOrder(v[i], v[best]) = "gt" THEN ArgMaxFrom(v, i + 1, i)
    ELSE ArgMaxFrom(v, i + 1, best)

\* QuantileExt::argmax
argmax(v) == ArgMaxFrom(v, 1, 1)

\* GaussianNb::predict, "Identify the class with the maximum log likelihood"
\* of row r: classes is the vec of the classes in the order the map of the
\* likelihoods iterates in; 0 when argmax fails
PredictRow(jll, classes, r) ==
    argmax([i \in 1..Len(classes) |-> jll[classes[i]][r]])

\* GaussianNb::predict, from the likelihoods of the n rows: the labels of the
\* rows, or the panic of the unwrap of a failed argmax
PredictLabels(jll, classes, n) ==
    IF \E r \in 1..n : PredictRow(jll, classes, r) = 0
    THEN [panicked |-> TRUE, labels |-> <<>>]
    ELSE [panicked |-> FALSE,
          labels |-> [r \in 1..n |-> classes[PredictRow(jll, classes, r)]]]

\* GaussianNb::predict
predict(class_info, x, classes) ==
    PredictLabels(joint_log_likelihood(class_info, x), classes, Len(x))

\* the bounds on the logarithm tell the order of every two likelihoods of
\* each of the n rows
Comparable(jll, n) ==
    \A r \in 1..n : \A c1, c2 \in DOMAIN jll :
        JllOrder(jll[c1][r], jll[c2][r]) # "unknown"

(***************************************************************************)
(* The runs of solve.  A caller builds the solver over a linear kernel on  *)
(* the one-feature samples below, with the targets, the upper bounds, the  *)
(* tolerance and the shrinking flag of its choice, the usual start of a    *)
(* classification (alpha = 0, p = -1), and calls solve.                    *)
(***************************************************************************)
VARIABLES
    input,      \* the arguments the caller built the solver from
    state,      \* the SolverState
    prev,       \* the SolverState before the latest update
    iter,       \* solve's iter
    counter,    \* solve's shrinking counter
    ws,         \* the working set selected for the next update
    pc,         \* the place in solve: loop, select, update, post, done, panic
    left,       \* how the main loop was left: "" (not yet), break or cap
    shrink_call,\* whether the latest pass through the head of the loop called
                \* do_shrinking, and the SolverState it started from
    restores,   \* how many times do_shrinking restored the full active set
    svm,        \* the Svm that solve returned
    nb_params,  \* the GaussianNbParams
    nb_data,    \* the whole dataset the caller holds
    nb_fed,     \* how many of its rows went into fit or fit_with so far
    nb_model,   \* what the latest fit or fit_with returned (NoModel before)
    nb_model_in,\* the model_in of the latest call
    nb_batch,   \* the dataset of the latest call
    nb_calls,   \* the number of calls made
    nb_pred     \* the latest predict on the model: its input, the order in
                \* which the map of the likelihoods iterated, and its outcome

smo_vars == <<input, state, prev, iter, counter, ws, pc, left, shrink_call, restores, svm>>

nb_vars == <<nb_params, nb_data, nb_fed, nb_model, nb_model_in, nb_batch, nb_calls, nb_pred>>

vars == <<smo_vars, nb_vars>>

Samples == <<<<-1>>, <<2>>, <<-2>>, <<0>>, <<1>>>>
N == Len(Samples)
EpsChoices == {RZero, Rat(1, 10)}

Inputs ==
    [targets : [1..N -> BOOLEAN],
     bounds : [1..N -> {RInt(1), RInt(MaxC)}],
     eps : EpsChoices,
     shrinking : BOOLEAN]

Construct(in, shrinking) ==
    New([i \in 1..N |-> RZero],
        [i \in 1..N |-> RNeg(ROne)],
        in.targets,
        PermutableKernel(Samples, in.targets, TRUE),
        in.bounds,
        [eps |-> in.eps, shrinking |-> shrinking],
        FALSE)

\* no predict was made on the model
NoPrediction ==
    [made |-> FALSE, x |-> <<>>, classes |-> <<>>, panicked |-> FALSE, labels |-> <<>>]

NoSvm == [alpha |-> <<>>, rho |-> NaN, r |-> <<FALSE, Fin(RZero)>>, exit_reason |-> "",
          obj |-> RZero, iterations |-> 0, linear_decision |-> <<FALSE, <<>>>>]

\* no fit is going on
NbIdle ==
    /\ nb_params = [var_smoothing |-> RZero]
    /\ nb_data = [records |-> <<>>, targets |-> <<>>, ncols |-> 0]
    /\ nb_fed = 0
    /\ nb_model = NoModel
    /\ nb_model_in = NoModel
    /\ nb_batch = [records |-> <<>>, targets |-> <<>>, ncols |-> 0]
    /\ nb_calls = 0
    /\ nb_pred = NoPrediction

Init ==
    /\ NbIdle
    /\ input \in Inputs
    /\ state = Construct(input, input.shrinking)
    /\ prev = state
    /\ iter = 0
    /\ counter = InitialCounter(state)
    /\ ws = <<1, 1>>
    /\ pc = "loop"
    /\ left = ""
    /\ shrink_call = [called |-> FALSE, from |-> state]
    /\ restores = 0
    /\ svm = NoSvm

\* while iter < max_iter: the counter, and do_shrinking when it is due
Tick ==
    /\ pc = "loop"
    /\ iter < max_iter(state)
    /\ \E h \in {LoopHead(state, counter)} :
           /\ state' = h.state
           /\ counter' = h.counter
           /\ pc' = IF h.panicked THEN "panic" ELSE "select"
           /\ shrink_call' = [called |-> h.called, from |-> state]
           /\ restores' = IF h.called /\ Restoring(state) THEN restores + 1
                          ELSE restores
    /\ UNCHANGED <<input, prev, iter, ws, left, svm, nb_vars>>

\* select_working_set; the loop is left when it reports optimal twice
Select ==
    /\ pc = "select"
    /\ \E c \in {LoopSelect(state, counter)} :
           /\ state' = c.state
           /\ counter' = c.counter
           /\ ws' = c.ws
           /\ pc' = IF c.break THEN "post" ELSE "update"
           /\ left' = IF c.break THEN "break" ELSE left
    /\ UNCHANGED <<input, prev, iter, shrink_call, restores, svm, nb_vars>>

\* iter += 1; update alpha[i] and alpha[j]
Update ==
    /\ pc = "update"
    /\ iter' = iter + 1
    /\ prev' = state
    /\ state' = update(state, ws[1], ws[2])
    /\ pc' = "loop"
    /\ UNCHANGED <<input, counter, ws, left, shrink_call, restores, svm, nb_vars>>

\* the loop ends at the cap of iterations
Exhaust ==
    /\ pc = "loop"
    /\ ~(iter < max_iter(state))
    /\ pc' = "post"
    /\ left' = "cap"
    /\ UNCHANGED <<input, state, prev, iter, counter, ws, shrink_call, restores, svm, nb_vars>>

\* the code after the loop: solve returns
Finish ==
    /\ pc = "post"
    /\ \E f \in {LoopFinish(state, iter)} :
           /\ state' = f.state
           /\ svm' = f.svm
    /\ pc' = "done"
    /\ UNCHANGED <<input, prev, iter, counter, ws, left, shrink_call, restores, nb_vars>>

Next == Tick \/ Select \/ Update \/ Exhaust \/ Finish

Spec == Init /\ [][Next]_vars

(***************************************************************************)
(* solve with the nu constraint.  The caller starts from a feasible point  *)
(* of the nu formulation: every alpha within its bound 1, the alpha of the *)
(* positive targets and those of the negative targets adding up to the     *)
(* same positive sum, and the linear term p is 0.                          *)
(***************************************************************************)
\* the samples: N points of the plane
NuSamples == <<<<1, 0>>, <<0, 1>>, <<-1, 1>>, <<1, 1>>, <<0, -1>>>>
NuAlphas == {RZero, Rat(1, 2), ROne}

\* the sum of the alpha of the targets that are `positive`
ClassSum(targets, alpha, positive) ==
    RSum([i \in 1..Len(targets) |-> IF targets[i] = positive THEN alpha[i] ELSE RZero],
         1, Len(targets))

NuInputs ==
    {in \in [targets : [1..N -> BOOLEAN],
             alpha : [1..N -> NuAlphas],
             bounds : {[i \in 1..N |-> ROne]},
             eps : EpsChoices,
             shrinking : BOOLEAN] :
        /\ ClassSum(in.targets, in.alpha, TRUE) = ClassSum(in.targets, in.alpha, FALSE)
        /\ RGt(ClassSum(in.targets, in.alpha, TRUE), RZero)}

InitNu ==
    /\ NbIdle
    /\ input \in NuInputs
    /\ state = New(input.alpha,
                   [i \in 1..N |-> RZero],
                   input.targets,
                   PermutableKernel(NuSamples, input.targets, TRUE),
                   input.bounds,
                   [eps |-> input.eps, shrinking |-> input.shrinking],
                   TRUE)
    /\ prev = state
    /\ iter = 0
    /\ counter = InitialCounter(state)
    /\ ws = <<1, 1>>
    /\ pc = "loop"
    /\ left = ""
    /\ shrink_call = [called |-> FALSE, from |-> state]
    /\ restores = 0
    /\ svm = NoSvm

SpecNu == InitNu /\ [][Next]_vars

(***************************************************************************)
(* A whole run of solve as one value, for the comparison of two runs on    *)
(* the same inputs: the Svm returned, or "panic".                          *)
(***************************************************************************)
RECURSIVE SolveLoop(_, _, _)
RECURSIVE SolveSelected(_, _)
RECURSIVE SolveHead(_, _)

\* the loop body after the selection c
SolveSelected(c, done_iters) ==
    IF c.break THEN [panicked |-> FALSE, svm |-> LoopFinish(c.state, done_iters).svm]
    ELSE SolveLoop(update(c.state, c.ws[1], c.ws[2]), done_iters + 1, c.counter)

\* the loop body after its head h
SolveHead(h, done_iters) ==
    IF h.panicked THEN [panicked |-> TRUE, svm |-> NoSvm]
    ELSE SolveSelected(LoopSelect(h.state, h.counter), done_iters)

SolveLoop(s, done_iters, shrink_in) ==
    IF done_iters < max_iter(s) THEN SolveHead(LoopHead(s, shrink_in), done_iters)
    ELSE [panicked |-> FALSE, svm |-> LoopFinish(s, done_iters).svm]

\* SolverState::solve
solve(s) == SolveLoop(s, 0, InitialCounter(s))

(***************************************************************************)
(* The properties of solve.                                                *)
(***************************************************************************)
\* the position k of the solver state holds the sample active_set[k]
OriginalIndex(k) == state.active_set[k]

\* sum over the coordinates of y_k * alpha_k
SignedAlphaSum(s) ==
    RSum([k \in 1..ntotal(s) |-> RMul(target(s, k), s.alpha[k].value)], 1, ntotal(s))

\* C1: after every update made by solve, every coordinate satisfies
\* 0 <= alpha <= C, where C is the upper bound the caller supplied for that
\* coordinate (the sample the position holds).
BoxFeasibility ==
    \A k \in 1..N :
        /\ RLe(RZero, state.alpha[k].value)
        /\ RLe(state.alpha[k].value, input.bounds[OriginalIndex(k)])

\* C2: every update(i, j) leaves the sum over all coordinates of
\* y_k * alpha_k unchanged, in both branches and when a clipping block fires.
EqualityConstraint ==
    (pc = "loop" /\ iter > 0) => SignedAlphaSum(state) = SignedAlphaSum(prev)

\* an update has just been made whose step was clipped to the box, between
\* two coordinates of different targets
EqualityConstraintClippedDiff ==
    /\ pc = "loop"
    /\ iter > 0
    /\ prev.targets[ws[1]] # prev.targets[ws[2]]
    /\ PairStep(prev, ws[1], ws[2]).vi # PairStep(prev, ws[1], ws[2]).mi
    /\ state.alpha[ws[1]].value = PairStep(prev, ws[1], ws[2]).vi

\* C3: the returned alpha is in original index order: for every position k,
\* output_alpha[active_set[k]] is the internal alpha at position k when solve
\* returns.
PermutationConsistency ==
    pc = "done" =>
        \A k \in 1..N : svm.alpha[OriginalIndex(k)] = state.alpha[k].value

\* the maximal violations over all n coordinates of the final state
FullViolation ==
    max_violating_pair([state EXCEPT !.nactive = ntotal(state)])

\* C4: whenever solve returns ReachedThreshold, gmax1 + gmax2 < eps for the
\* extrema over all n coordinates of the final state, for every eps >= 0.
OptimalityAtExit ==
    (pc = "done" /\ svm.exit_reason = "ReachedThreshold") =>
        ELt(EAdd(FullViolation[1][1], FullViolation[2][1]), Fin(input.eps))

\* C5: solve never fails; it returns ReachedIterations exactly when the loop
\* ended at the cap of max_iter updates and ReachedThreshold exactly when it
\* was left through the break; iterations is the number of updates made and
\* is at most max_iter.
ExitReason ==
    /\ pc # "panic"
    /\ pc = "done" =>
        /\ svm.exit_reason = "ReachedIterations" <=> (left = "cap" /\ iter = max_iter(state))
        /\ svm.exit_reason = "ReachedThreshold" <=> left = "break"
        /\ svm.iterations = iter
        /\ svm.iterations <= max_iter(state)

\* the sum over the original sample indices i of y_i * alpha_i * X_i, for the
\* targets y the caller supplied and the returned alpha
LinearWeights ==
    [f \in 1..Len(Samples[1]) |->
        RSum([i \in 1..N |->
                RMul(RMul(IF input.targets[i] THEN ROne ELSE RNeg(ROne), svm.alpha[i]),
                     RInt(Samples[i][f]))], 1, N)]

\* C6: with a linear kernel the returned linear_decision is the sum over the
\* original sample indices i of y_i * alpha_i * X_i.
LinearDecisionWeights ==
    pc = "done" => svm.linear_decision = <<TRUE, LinearWeights>>

\* C7: on the same inputs, solve with shrinking and solve without both
\* complete without panic and return the same ExitReason and the same alpha.
ShrinkingSameAnswer ==
    /\ pc # "panic"
    /\ (pc = "done" /\ input.shrinking) =>
        /\ ~solve(Construct(input, FALSE)).panicked
        /\ svm.exit_reason = solve(Construct(input, FALSE)).svm.exit_reason
        /\ svm.alpha = solve(Construct(input, FALSE)).svm.alpha

\* C13: on both exit paths nactive = n at the moment rho and the objective
\* are computed: an optimal selection inside the loop restores the full
\* active set, as the cap of iterations does.
FullActiveSetAtExit ==
    pc = "done" => state.nactive = ntotal(state)

\* C14: in every state of solve, the steps inside do_shrinking included,
\* 0 <= nactive <= n, and nactive -= 1 is never executed at nactive = 0.
ActivePrefixBound ==
    /\ pc # "panic"
    /\ state.nactive \in 0..ntotal(state)

\* the positions 1..last of s that should_shrunk holds for
Shrinkable(s, last, gmax1, gmax2) ==
    {k \in 1..last : should_shrunk(s, k, gmax1, gmax2)}

\* do_shrinking went from the state s1 its loop started from to the state s2:
\* what stayed active should not be shrunk, what left the active prefix
\* should, and nactive went down by the number of shrinkable positions
ShrinkPartition(s1, s2, gmax1, gmax2) ==
    /\ Shrinkable(s2, s2.nactive, gmax1, gmax2) = {}
    /\ \A k \in (s2.nactive + 1)..s1.nactive : should_shrunk(s2, k, gmax1, gmax2)
    /\ s1.nactive - s2.nactive
         = Cardinality(Shrinkable(s1, s1.nactive, gmax1, gmax2))

\* C15: when do_shrinking returns, with the thresholds computed at its
\* start, every coordinate of the new active prefix fails should_shrunk,
\* every coordinate that left the prefix satisfies it, and nactive decreased
\* by exactly the number of previously active coordinates satisfying it.
ShrinkingPartitionsPrefix ==
    (pc = "select" /\ shrink_call.called) =>
        ShrinkPartition(ShrinkStart(shrink_call.from), state,
                        max_violating_pair(shrink_call.from)[1][1],
                        max_violating_pair(shrink_call.from)[2][1])

\* the shrink predicate as stated: at the upper bound -g_i > (gmax1 if y_i is
\* positive, else gmax2); else at the lower bound g_i > (gmax2 if y_i is
\* positive, else gmax1); false for a free coordinate
StatedShrink(s, i, gmax1, gmax2) ==
    IF reached_upper(s.alpha[i])
    THEN ELt(IF s.targets[i] THEN gmax1 ELSE gmax2, Fin(RNeg(s.gradient[i])))
    ELSE IF reached_lower(s.alpha[i])
    THEN ELt(IF s.targets[i] THEN gmax2 ELSE gmax1, Fin(s.gradient[i]))
    ELSE FALSE

\* should_shrunk agrees with the stated predicate on every position of s
ShrinkAsStated(s, gmax1, gmax2) ==
    \A i \in 1..ntotal(s) :
        should_shrunk(s, i, gmax1, gmax2) = StatedShrink(s, i, gmax1, gmax2)

\* C16: should_shrunk(i, gmax1, gmax2) is true exactly when alpha_i is at its
\* upper bound and -g_i > (gmax1 if y_i is positive, else gmax2), or alpha_i
\* is at its lower bound and g_i > (gmax2 if y_i is positive, else gmax1).
ShrinkPredicate ==
    (pc \in {"select", "panic"} /\ shrink_call.called) =>
        ShrinkAsStated(ShrinkStart(shrink_call.from),
                       max_violating_pair(shrink_call.from)[1][1],
                       max_violating_pair(shrink_call.from)[2][1])

\* the sum over the free-floating active positions i of alpha_i * K(i, j)
FreeActiveSum(s, j) ==
    RSum([i \in 1..s.nactive |->
            IF free_floating(s.alpha[i])
            THEN RMul(s.alpha[i].value, distances(s.kernel, i, ntotal(s))[j])
            ELSE RZero], 1, s.nactive)

\* r is s with the gradient of its shrunk positions reconstructed
Reconstructed(s, r) ==
    \A j \in 1..ntotal(s) :
        r.gradient[j] = IF j > s.nactive
                        THEN RAdd(RAdd(s.gradient_fixed[j], s.p[j]), FreeActiveSum(s, j))
                        ELSE s.gradient[j]

\* C17: after reconstruct_gradient with nactive < n, for every shrunk position
\* j, gradient[j] = gradient_fixed[j] + p[j] + the sum over the free-floating
\* active positions i of alpha_i * K(i, j), whichever loop the cost comparison
\* selects, and the gradient of the active positions is unchanged.
GradientReconstruction ==
    (pc = "select" /\ state.nactive < ntotal(state) /\ select_working_set(state)[3]) =>
        Reconstructed(state, reconstruct_gradient(state))

\* the sum over the positions i at their upper bound of C_i * K(i, k), C_i the
\* upper bound of the coordinate that position i holds
UpperBoundSum(s, k) ==
    RSum([i \in 1..ntotal(s) |->
            IF reached_upper(s.alpha[i])
            THEN RMul(input.bounds[s.active_set[i]], distances(s.kernel, i, ntotal(s))[k])
            ELSE RZero], 1, ntotal(s))

\* C18: after initialization and after every update, for every position k,
\* gradient_fixed[k] is the sum over the positions i whose alpha is at its
\* upper bound of C_i * K(i, k).
CachedUpperBoundGradient ==
    pc = "loop" =>
        \A k \in 1..ntotal(state) : state.gradient_fixed[k] = UpperBoundSum(state, k)

\* C19: for every position k, alpha[k], p[k], targets[k], the kernel's column
\* and bound(k) belong to the coordinate active_set[k], and active_set is a
\* permutation of the coordinates.
SwapKeepsTogether ==
    /\ {state.active_set[k] : k \in 1..N} = 1..N
    /\ \A k \in 1..N :
        /\ bound(state, k) = input.bounds[OriginalIndex(k)]
        /\ state.alpha[k].upper_bound = input.bounds[OriginalIndex(k)]
        /\ state.targets[k] = input.targets[OriginalIndex(k)]
        /\ state.p[k] = Construct(input, input.shrinking).p[OriginalIndex(k)]
        /\ state.kernel.indices[k] = OriginalIndex(k)

\* C20: unshrink is false after construction, is never reset once set, and
\* the restoration of do_shrinking is executed at most once per solve.
UnshrinkLatch ==
    /\ restores \in {0, 1}
    /\ state.unshrink <=> restores = 1

\* do_shrinking was called with 10*eps reached after the restoration had
\* already been made
UnshrinkLatchHeld ==
    /\ pc = "select"
    /\ shrink_call.called
    /\ shrink_call.from.unshrink
    /\ RestoreDueUnlatched(shrink_call.from)
    /\ restores = 1

(***************************************************************************)
(* The fits of Gaussian naive Bayes.  A caller holds a dataset of NbRows   *)
(* rows of one feature and feeds it to the classifier: as a whole to fit,  *)
(* or batch after batch of consecutive rows to fit_with, each call taking  *)
(* what the call before returned.  It may also hand fit_with a batch       *)
(* without rows, or one without columns.                                   *)
(***************************************************************************)
\* as many rows as calls, so that row by row is one way to feed them
NbRows == MaxCalls
NbValues == {0, 1, 2}
NbClasses == {1, 2}
VarSmoothings == {RZero, Rat(1, SmoothingDen)}

NbDatasets ==
    [records : [1..NbRows -> {<<v>> : v \in NbValues}],
     targets : [1..NbRows -> NbClasses],
     ncols : {1}]

\* the rows first..last of the dataset d as a dataset
Rows(d, first, last) ==
    [records |-> SubSeq(d.records, first, last),
     targets |-> SubSeq(d.targets, first, last),
     ncols |-> d.ncols]

\* a dataset without rows
NoRows(d) == Rows(d, 1, 0)

\* a dataset of one row without columns
NoColumns == [records |-> <<<<>>>>, targets |-> <<1>>, ncols |-> 0]

\* no solve is going on
SmoIdle ==
    /\ input = <<>>
    /\ state = <<>>
    /\ prev = <<>>
    /\ iter = 0
    /\ counter = 0
    /\ ws = <<1, 1>>
    /\ pc = "idle"
    /\ left = ""
    /\ shrink_call = [called |-> FALSE, from |-> <<>>]
    /\ restores = 0
    /\ svm = NoSvm

InitGNB ==
    /\ SmoIdle
    /\ nb_params \in [var_smoothing : VarSmoothings]
    /\ nb_data \in NbDatasets
    /\ nb_fed = 0
    /\ nb_model = NoModel
    /\ nb_model_in = NoModel
    /\ nb_batch = NoRows(nb_data)
    /\ nb_calls = 0
    /\ nb_pred = NoPrediction

\* fit on the whole dataset
Fit ==
    /\ nb_calls = 0
    /\ nb_model' = fit(nb_params, nb_data)
    /\ nb_model_in' = NoModel
    /\ nb_batch' = nb_data
    /\ nb_fed' = Len(nb_data.records)
    /\ nb_calls' = 1
    /\ nb_pred' = NoPrediction
    /\ UNCHANGED <<nb_params, nb_data, smo_vars>>

\* fit_with on the next rows of the dataset
FitWith ==
    /\ nb_calls < MaxCalls
    /\ \E k \in 1..(Len(nb_data.records) - nb_fed) :
        /\ nb_model' = fit_with(nb_params, nb_model, Rows(nb_data, nb_fed + 1, nb_fed + k))
        /\ nb_batch' = Rows(nb_data, nb_fed + 1, nb_fed + k)
        /\ nb_fed' = nb_fed + k
    /\ nb_model_in' = nb_model
    /\ nb_calls' = nb_calls + 1
    /\ nb_pred' = NoPrediction
    /\ UNCHANGED <<nb_params, nb_data, smo_vars>>

\* fit_with on a batch without rows
FitWithNoRows ==
    /\ nb_calls < MaxCalls
    /\ nb_model' = fit_with(nb_params, nb_model, NoRows(nb_data))
    /\ nb_batch' = NoRows(nb_data)
    /\ nb_model_in' = nb_model
    /\ nb_calls' = nb_calls + 1
    /\ nb_pred' = NoPrediction
    /\ UNCHANGED <<nb_params, nb_data, nb_fed, smo_vars>>

\* fit_with on a batch without columns
FitWithNoColumns ==
    /\ nb_calls < MaxCalls
    /\ nb_model' = fit_with(nb_params, nb_model, NoColumns)
    /\ nb_batch' = NoColumns
    /\ nb_model_in' = nb_model
    /\ nb_calls' = nb_calls + 1
    /\ nb_pred' = NoPrediction
    /\ UNCHANGED <<nb_params, nb_data, nb_fed, smo_vars>>

\* the orders a map with the keys S may iterate in
Orders(S) ==
    {o \in [1..Cardinality(S) -> S] : \A i, j \in 1..Cardinality(S) : o[i] = o[j] => i = j}

\* what the caller asks predictions for: the rows it trained the model on,
\* or one row of every value
PredictInputs ==
    {SubSeq(nb_data.records, 1, nb_fed)} \cup {[r \in 1..Cardinality(NbValues) |-> <<r - 1>>]}

\* predict on the fitted model
Predict ==
    /\ nb_model.kind = "Ok"
    /\ ~nb_pred.made
    /\ \E x \in PredictInputs : \E classes \in Orders(DOMAIN nb_model.class_info) :
        /\ Len(x) > 0
        /\ Comparable(joint_log_likelihood(nb_model.class_info, x), Len(x))
        /\ \E out \in {predict(nb_model.class_info, x, classes)} :
               nb_pred' = [made |-> TRUE, x |-> x, classes |-> classes,
                           panicked |-> out.panicked, labels |-> out.labels]
    /\ UNCHANGED <<nb_params, nb_data, nb_fed, nb_model, nb_model_in, nb_batch, nb_calls,
                   smo_vars>>

NextGNB == Fit \/ FitWith \/ FitWithNoRows \/ FitWithNoColumns \/ Predict

SpecGNB == InitGNB /\ [][NextGNB]_vars

(***************************************************************************)
(* The properties of fit and fit_with.                                     *)
(***************************************************************************)
\* the priors of the classes in S added up
RECURSIVE PriorOver(_, _)
PriorOver(class_info, S) ==
    IF S = {} THEN RZero
    ELSE RAdd(class_info[CHOOSE c \in S : TRUE].prior,
              PriorOver(class_info, S \ {CHOOSE c \in S : TRUE}))

\* C8: after every successful fit or fit_with, every class c of the model
\* has prior_c = class_count_c / (sum of class_count over the classes of the
\* model), and the priors sum to 1.
GnbPriors ==
    nb_model.kind = "Ok" =>
        /\ \A c \in DOMAIN nb_model.class_info :
              nb_model.class_info[c].prior
                = RDiv(RInt(nb_model.class_info[c].class_count),
                       RInt(CountOver(nb_model.class_info, DOMAIN nb_model.class_info)))
        /\ PriorOver(nb_model.class_info, DOMAIN nb_model.class_info) = ROne

\* a fit_with succeeded on a batch that brought a class the model did not
\* have and lacked a class the model had
GnbPriorsNewAndMissingClass ==
    /\ nb_model.kind = "Ok"
    /\ nb_model_in.kind = "Ok"
    /\ labels(nb_batch.targets) \ DOMAIN nb_model_in.class_info # {}
    /\ DOMAIN nb_model_in.class_info \ labels(nb_batch.targets) # {}

\* |a - b| <= max(|a|, |b|) / RelTolInv
RelClose(a, b) ==
    IF RGe(RAbs(a), RAbs(b))
    THEN RAbs(RSub(a, b))[1] * RAbs(a)[2]
           <= (RAbs(a)[1] * RAbs(RSub(a, b))[2]) \div RelTolInv
    ELSE RAbs(RSub(a, b))[1] * RAbs(b)[2]
           <= (RAbs(b)[1] * RAbs(RSub(a, b))[2]) \div RelTolInv

\* two models have the same classes with the same counts, and theta, sigma
\* and prior within the relative tolerance
SameModel(folded, whole) ==
    /\ DOMAIN folded = DOMAIN whole
    /\ \A c \in DOMAIN folded :
        /\ folded[c].class_count = whole[c].class_count
        /\ RelClose(folded[c].prior, whole[c].prior)
        /\ Len(folded[c].theta) = Len(whole[c].theta)
        /\ Len(folded[c].sigma) = Len(whole[c].sigma)
        /\ \A f \in 1..Len(folded[c].theta) :
              RelClose(folded[c].theta[f], whole[c].theta[f])
        /\ \A f \in 1..Len(folded[c].sigma) :
              RelClose(folded[c].sigma[f], whole[c].sigma[f])

\* C9: folding fit_with over a partition of the rows into consecutive
\* non-empty batches gives the classes and class counts of a single fit on
\* the whole dataset, and theta, sigma and prior within relative tolerance
\* 1e-6 of it.
GnbIncrementalEquivalence ==
    (nb_model.kind = "Ok" /\ nb_fed = Len(nb_data.records)) =>
        /\ fit(nb_params, nb_data).kind = "Ok"
        /\ SameModel(nb_model.class_info, fit(nb_params, nb_data).class_info)

\* C10: fit_with given a previous result that is an error returns that same
\* error, whatever the batch is; no model is produced.
GnbErrorPropagation ==
    nb_model_in.kind = "Err" => nb_model = nb_model_in

\* fit_with was given an error together with a batch that has rows and
\* columns
GnbErrorPropagationValidBatch ==
    /\ nb_model_in.kind = "Err"
    /\ Len(nb_batch.records) > 0
    /\ nb_batch.ncols > 0
    /\ nb_model.kind = "Err"

(***************************************************************************)
(* The properties of predict.                                              *)
(***************************************************************************)
\* the classes S in ascending order
Ascending(S) == CHOOSE o \in Orders(S) : \A i, j \in 1..Cardinality(S) : i < j => o[i] < o[j]

\* C11: for a given fitted model and input, predict always returns the same
\* labels: a tie of the maximal joint log-likelihood is resolved by the
\* ascending order of the class labels, whatever order the map iterates in.
PredictDeterminism ==
    nb_pred.made =>
        [panicked |-> nb_pred.panicked, labels |-> nb_pred.labels]
          = predict(nb_model.class_info, nb_pred.x, Ascending(DOMAIN nb_model.class_info))

\* the rows 1..n of the dataset d form separated clusters: the values of any
\* two classes lie in disjoint intervals
Separated(d, n) ==
    \A r1, r2 \in 1..n :
        d.targets[r1] # d.targets[r2] =>
            \A r3 \in 1..n :
                d.targets[r3] = d.targets[r1] =>
                    (d.records[r1][1] < d.records[r2][1])
                      = (d.records[r3][1] < d.records[r2][1])
                    /\ d.records[r3][1] # d.records[r2][1]

\* the label is a class of the model whose likelihood for the row no class
\* of the model exceeds
IsArgmax(class_info, row, label) ==
    /\ label \in DOMAIN class_info
    /\ \A c \in DOMAIN class_info :
          JllOrder(Jll(class_info[label], row), Jll(class_info[c], row)) \in {"gt", "eq"}

\* C12: predict returns exactly one label per row, a class of the model whose
\* joint log-likelihood for the row is greater than or equal to that of every
\* other class; on training data of separated clusters it returns the
\* training labels.
PredictArgmax ==
    nb_pred.made =>
        /\ ~nb_pred.panicked
        /\ Len(nb_pred.labels) = Len(nb_pred.x)
        /\ \A r \in 1..Len(nb_pred.x) :
              IsArgmax(nb_model.class_info, nb_pred.x[r], nb_pred.labels[r])
        /\ (nb_pred.x = SubSeq(nb_data.records, 1, nb_fed) /\ Separated(nb_data, nb_fed))
              => nb_pred.labels = SubSeq(nb_data.targets, 1, nb_fed)

(***************************************************************************)
(* The merge of mean and variance.  The rows of one class among the first  *)
(* rows of the dataset are the old rows, those among the rows that follow  *)
(* are the new batch.                                                      *)
(***************************************************************************)
\* the rows of the class c among the rows first..last of the dataset d
ClassRows(d, first, last, c) ==
    filter(Rows(d, first, last).records, Rows(d, first, last).targets, c)

\* the mean and the population variance of rows x, computed from the rows
MeanVariance(x, ncols) ==
    <<mean_axis(x, ncols), [f \in 1..ncols |-> MeanSquare(x, f, mean_axis(x, ncols)[f])]>>

\* what update_mean_variance returns for the old rows and the new rows, the
\* old statistics being those of the old rows (those of ClassInfo::default
\* when there is no old row)
Merged(old, new, ncols) ==
    IF Len(old) = 0
    THEN update_mean_variance(0, ClassInfoDefault.theta, ClassInfoDefault.sigma, new, ncols)
    ELSE update_mean_variance(Len(old), MeanVariance(old, ncols)[1],
                              MeanVariance(old, ncols)[2], new, ncols)

\* the merge is that of the rows: the statistics of old and new together,
\* those of new when there is no old row, the old ones when new is empty
MergeIsExact(old, new, ncols) ==
    /\ Len(old) >= 1 /\ Len(new) >= 1 =>
           Merged(old, new, ncols) = MeanVariance(old \o new, ncols)
    /\ Len(old) = 0 /\ Len(new) >= 1 => Merged(old, new, ncols) = MeanVariance(new, ncols)
    /\ Len(old) >= 1 /\ Len(new) = 0 => Merged(old, new, ncols) = MeanVariance(old, ncols)

\* C21: for the old rows and the new batch of every class, at every split
\* of the rows fed so far, update_mean_variance on the mean and population
\* variance of the old rows and on the new batch returns exactly the mean
\* and population variance of old and new rows together; without old rows
\* it returns those of the new batch, without new rows the old ones
BatchMerge ==
    nb_calls >= 1 /\ nb_data.ncols = 1 =>
        \A c \in NbClasses : \A k \in 0..nb_fed :
            MergeIsExact(ClassRows(nb_data, 1, k, c), ClassRows(nb_data, k + 1, nb_fed, c),
                         nb_data.ncols)

\* a fit_with has merged a batch into a class that had rows, of another mean
BatchMergeShiftedMean ==
    /\ nb_calls >= 2
    /\ nb_model.kind = "Ok"
    /\ Len(nb_batch.records) >= 1
    /\ nb_batch.ncols = 1
    /\ \E c \in labels(nb_batch.targets) :
        /\ Len(ClassRows(nb_data, 1, nb_fed - Len(nb_batch.records), c)) >= 1
        /\ MeanVariance(ClassRows(nb_data, 1, nb_fed - Len(nb_batch.records), c), 1)[1]
               # MeanVariance(filter(nb_batch.records, nb_batch.targets, c), 1)[1]
        /\ MeanVariance(ClassRows(nb_data, 1, nb_fed - Len(nb_batch.records), c), 1)[2]
               # MeanVariance(ClassRows(nb_data, 1, nb_fed, c), 1)[2]

\* fit_with: the epsilon of a batch, var_smoothing times its largest variance
BatchEpsilon(params, dataset) ==
    RMul(params.var_smoothing, max(var_axis(dataset.records, dataset.ncols)).value)

\* C22: after a fit_with that was given a model, every class of the model,
\* in the batch or not, has sigma = the un-smoothed variance of all rows of
\* that class seen so far + the epsilon of the current batch: subtracting
\* epsilon restored the variance the previous fit had before its smoothing
SmoothingRoundTrip ==
    (nb_model_in.kind = "Ok" /\ nb_model.kind = "Ok") =>
        \A c \in DOMAIN nb_model.class_info :
            \A f \in 1..nb_data.ncols :
                nb_model.class_info[c].sigma[f]
                    = RAdd(MeanVariance(ClassRows(nb_data, 1, nb_fed, c), nb_data.ncols)[2][f],
                           BatchEpsilon(nb_params, nb_batch))

(***************************************************************************)
(* The restoration of do_shrinking_nu.                                     *)
(***************************************************************************)
\* max(gmax1 + gmax3, gmax4 + gmax2) <= 10*eps on the maxima that
\* max_violating_pair_nu returns for s: the pairs of the optimality test of
\* select_working_set_nu
WithinClassTenEps(s) ==
    ELe(EMax(EAdd(MaximaNu(s)[1], MaximaNu(s)[3]), EAdd(MaximaNu(s)[4], MaximaNu(s)[2])),
        Fin(RMul(s.params.eps, RInt(10))))

\* the latest pass through the head of the loop called do_shrinking_nu
ShrunkNu ==
    /\ pc \in {"select", "panic"}
    /\ shrink_call.called
    /\ shrink_call.from.nu_constraint

\* C23: with the nu constraint do_shrinking restores the full active set
\* (unshrink turns true) exactly when unshrink is false and
\* max(gmax1 + gmax3, gmax4 + gmax2) <= 10*eps, the maxima being those of
\* max_violating_pair_nu paired as in the optimality test of
\* select_working_set_nu
NuShrinkThreshold ==
    ShrunkNu =>
        ((~shrink_call.from.unshrink /\ state.unshrink)
            <=> (~shrink_call.from.unshrink /\ WithinClassTenEps(shrink_call.from)))

=============================================================================
